---- MODULE Spec2Model ----
(***************************************************************************)
(* Model of simple_malloc.c: an implicit free list allocator with boundary *)
(* tags, first-fit search, splitting and immediate coalescing.             *)
(*                                                                         *)
(* Memory is the map from the byte address of a word to the word's value,  *)
(* for the words that hold the heap's layout: the padding word, the        *)
(* prologue, the header and footer of every block, and the epilogue.  The  *)
(* content of a payload (the caller's bytes, or what an earlier block left *)
(* behind) is unspecified and is not kept: GET is undefined on such a      *)
(* word, so TLC stops if the allocator ever reads one.  Every write of a   *)
(* call is recorded with its address.                                      *)
(***************************************************************************)
EXTENDS Integers, FiniteSets, Sequences, TLC

\* ---------------------------------------------------------------- constants

WSIZE == 4
DSIZE == 8
CHUNKSIZE == 2 ^ 12

\* Width in bits of a header word (unsigned int) and of size_t, scaled down
\* so that TLC's integers hold them.
WordBits == 14
SizeBits == 16
WordMod == 2 ^ WordBits
SizeMod == 2 ^ SizeBits

\* The most bytes the environment grants above the initial program break.
HeapLimit == 9200
\* The most blocks the caller holds at a time.
MaxLive == 3

NULL == 0
SBRK_FAILED == 0 - 1
\* The initial program break: page aligned, hence a multiple of DSIZE.
HeapBase == CHUNKSIZE

\* The request sizes the caller passes to mm_malloc.
Requests == {0, 48, 4024, 5000}
\* Requests near the top of the size type, where DSIZE + size wraps.
WideRequests == {SizeMod - 1, SizeMod - DSIZE, SizeMod - 2 * DSIZE}
\* A request whose block size does not fit a header word, and the bytes an
\* environment with that much memory grants above the initial break.
LargeRequests == {WordMod}
LargeLimit == 2 * WordMod

\* The execution contexts that call the allocator with no lock, the requests
\* they make, and the most calls one of them makes.
Contexts == {1, 2}
ConcRequests == {48, 4024}
MaxCalls == 2

VARIABLES
    mem,        \* word address -> value, the words written so far
    brk,        \* the program break: the heap is [HeapBase, brk)
    heap_ptr,   \* the global heap_ptr
    status,     \* "fresh" | "ready" | "init_failed" | "stopped"
    live,       \* pointers returned by mm_malloc and not yet released
    last,       \* the call that just completed
    conc        \* the contexts that call concurrently: for each its position
                \* in mm_malloc or mm_free (pc), the locals new_size and bp,
                \* the pointers it holds and the calls it has made; mixed: a step of one context
                \* was taken while the other was inside a call

vars == <<mem, brk, heap_ptr, status, live, last, conc>>

\* ------------------------------------------------------------------- macros

\* The state a call threads through its statements: the memory and the
\* break, with the addresses the call has written (wr), the values it has
\* passed to PUT (pk) and the sbrk calls it has made (sb), each with its
\* increment and its result; lim is what the environment grants.
St(m, b) == [mem |-> m, brk |-> b, wr |-> {}, sb |-> <<>>, pk |-> {},
             lim |-> HeapLimit]

PACK(size, alloc) == IF alloc = 1 THEN size - (size % 2) + 1 ELSE size

\* The prologue's header and footer, and the epilogue header.
PROLOGUE == PACK(DSIZE, 1)
\* (mutant) the epilogue written with the allocated bit clear
EPILOGUE_free == PACK(0, 0)
EPILOGUE == PACK(0, 1)

GET(s, p) == s.mem[p]

PUT(s, p, val) ==
    [s EXCEPT !.mem = [a \in DOMAIN s.mem \cup {p} |->
                          IF a = p THEN val % WordMod ELSE s.mem[a]],
              !.wr = s.wr \cup {p},
              !.pk = s.pk \cup {val}]

GET_SIZE(s, p) == GET(s, p) - (GET(s, p) % 8)
GET_ALLOC(s, p) == GET(s, p) % 2

HDRP(bp) == bp - WSIZE
FTRP(s, bp) == bp + GET_SIZE(s, HDRP(bp)) - DSIZE

NEXT_BLKP(s, bp) == bp + GET_SIZE(s, bp - WSIZE)
PREV_BLKP(s, bp) == bp - GET_SIZE(s, bp - DSIZE)

\* ------------------------------------------------------------- environment

\* sbrk(increment): the increment is converted to intptr_t; the environment
\* may refuse (ok = FALSE), and refuses what leaves [HeapBase, limit].
sbrk(s, increment, ok) ==
    LET inc == IF increment >= SizeMod \div 2 THEN increment - SizeMod
               ELSE increment
    IN IF ok /\ s.brk + inc <= HeapBase + s.lim /\ s.brk + inc >= HeapBase
       THEN [s |-> [s EXCEPT !.brk = s.brk + inc,
                             !.sb = Append(s.sb, [inc |-> inc, ret |-> s.brk])],
             ret |-> s.brk]
       ELSE [s |-> [s EXCEPT !.sb = Append(s.sb, [inc |-> inc,
                                                  ret |-> SBRK_FAILED])],
             ret |-> SBRK_FAILED]

\* ---------------------------------------------------------------- coalesce

\* (mutant) condition 2 with the footer located before the header is updated
coalesce_next_old_footer(s, bp) ==
    LET size == (GET_SIZE(s, HDRP(bp))
                 + GET_SIZE(s, HDRP(NEXT_BLKP(s, bp)))) % SizeMod
        s1 == PUT(s, HDRP(bp), PACK(size, 0))
        s2 == PUT(s1, FTRP(s, bp), PACK(size, 0))
    IN [s |-> s2, bp |-> bp]

\* Condition 2: previous block allocated, next block free.
coalesce_next(s, bp) ==
    LET size == (GET_SIZE(s, HDRP(bp))
                 + GET_SIZE(s, HDRP(NEXT_BLKP(s, bp)))) % SizeMod
        s1 == PUT(s, HDRP(bp), PACK(size, 0))
        s2 == PUT(s1, FTRP(s1, bp), PACK(size, 0))
    IN [s |-> s2, bp |-> bp]

\* (mutant) condition 3 with the block's own size left out of the sum
coalesce_prev_short(s, bp) ==
    LET size == GET_SIZE(s, HDRP(PREV_BLKP(s, bp))) % SizeMod
        s1 == PUT(s, FTRP(s, bp), PACK(size, 0))
        s2 == PUT(s1, HDRP(PREV_BLKP(s1, bp)), PACK(size, 0))
    IN [s |-> s2, bp |-> PREV_BLKP(s2, bp)]

\* Condition 3: previous block free, next block allocated.
coalesce_prev(s, bp) ==
    LET size == (GET_SIZE(s, HDRP(bp))
                 + GET_SIZE(s, HDRP(PREV_BLKP(s, bp)))) % SizeMod
        s1 == PUT(s, FTRP(s, bp), PACK(size, 0))
        s2 == PUT(s1, HDRP(PREV_BLKP(s1, bp)), PACK(size, 0))
    IN [s |-> s2, bp |-> PREV_BLKP(s2, bp)]

\* (mutant) condition 4 with the next block's size left out of the sum
coalesce_both_short(s, bp) ==
    LET size == (GET_SIZE(s, HDRP(bp))
                 + GET_SIZE(s, HDRP(PREV_BLKP(s, bp)))) % SizeMod
        s1 == PUT(s, HDRP(PREV_BLKP(s, bp)), PACK(size, 0))
        s2 == PUT(s1, FTRP(s1, NEXT_BLKP(s1, bp)), PACK(size, 0))
    IN [s |-> s2, bp |-> PREV_BLKP(s2, bp)]

\* Condition 4: previous block free, next block free.
coalesce_both(s, bp) ==
    LET size == (GET_SIZE(s, HDRP(bp))
                 + GET_SIZE(s, HDRP(PREV_BLKP(s, bp)))
                 + GET_SIZE(s, FTRP(s, NEXT_BLKP(s, bp)))) % SizeMod
        s1 == PUT(s, HDRP(PREV_BLKP(s, bp)), PACK(size, 0))
        s2 == PUT(s1, FTRP(s1, NEXT_BLKP(s1, bp)), PACK(size, 0))
    IN [s |-> s2, bp |-> PREV_BLKP(s2, bp)]

\* (mutant) no merging: the block is returned as it is
coalesce_none(s, bp) == [s |-> s, bp |-> bp]

\* (mutant) the next block's state is read from the block's own footer
coalesce_own_footer(s, bp) ==
    LET prev_alloc == GET_ALLOC(s, FTRP(s, PREV_BLKP(s, bp)))
        next_alloc == GET_ALLOC(s, FTRP(s, bp))
    IN IF prev_alloc = 1 /\ next_alloc = 1 THEN [s |-> s, bp |-> bp]
       ELSE IF prev_alloc = 1 /\ next_alloc = 0 THEN coalesce_next(s, bp)
       ELSE IF prev_alloc = 0 /\ next_alloc = 1 THEN coalesce_prev(s, bp)
       ELSE coalesce_both(s, bp)

coalesce(s, bp) ==
    LET prev_alloc == GET_ALLOC(s, FTRP(s, PREV_BLKP(s, bp)))
        next_alloc == GET_ALLOC(s, HDRP(NEXT_BLKP(s, bp)))
    IN IF prev_alloc = 1 /\ next_alloc = 1 THEN [s |-> s, bp |-> bp]
       ELSE IF prev_alloc = 1 /\ next_alloc = 0 THEN coalesce_next(s, bp)
       ELSE IF prev_alloc = 0 /\ next_alloc = 1 THEN coalesce_prev(s, bp)
       ELSE coalesce_both(s, bp)

\* ----------------------------------------------------------------- mm_free

\* (mutant) the block is marked free and left unmerged
mm_free_deferred(s, bp) ==
    LET size == GET_SIZE(s, HDRP(bp))
        s1 == PUT(s, HDRP(bp), PACK(size, 0))
        s2 == PUT(s1, FTRP(s1, bp), PACK(size, 0))
    IN s2

\* (mutant) the header and footer are rewritten with the allocated bit set
mm_free_allocated(s, bp) ==
    LET size == GET_SIZE(s, HDRP(bp))
        s1 == PUT(s, HDRP(bp), PACK(size, 1))
        s2 == PUT(s1, FTRP(s1, bp), PACK(size, 1))
    IN coalesce(s2, bp).s

mm_free(s, bp) ==
    LET size == GET_SIZE(s, HDRP(bp))
        s1 == PUT(s, HDRP(bp), PACK(size, 0))
        s2 == PUT(s1, FTRP(s1, bp), PACK(size, 0))
    IN coalesce(s2, bp).s

\* ------------------------------------------------------------- extend_heap

\* (mutant) the free block's header is written before sbrk's result is tested
extend_heap_early(s, words, ok) ==
    LET size == IF words % 2 = 1 THEN ((words + 1) * WSIZE) % SizeMod
                ELSE (words * WSIZE) % SizeMod
        r == sbrk(s, size, ok)
        bp == r.ret
        s1 == PUT(r.s, HDRP(s.brk), PACK(size, 0))
    IN IF bp = SBRK_FAILED THEN
           [s |-> s1, bp |-> NULL]
       ELSE
           LET s2 == PUT(s1, FTRP(s1, bp), PACK(size, 0))
               s3 == PUT(s2, HDRP(NEXT_BLKP(s2, bp)), EPILOGUE)
               c == coalesce(s3, bp)
           IN [s |-> c.s, bp |-> c.bp]

\* bp = NULL when sbrk fails.
extend_heap(s, words, ok) ==
    LET size == IF words % 2 = 1 THEN ((words + 1) * WSIZE) % SizeMod
                ELSE (words * WSIZE) % SizeMod
        r == sbrk(s, size, ok)
        bp == r.ret
    IN IF bp = SBRK_FAILED THEN
           [s |-> r.s, bp |-> NULL]
       ELSE
           LET s1 == PUT(r.s, HDRP(bp), PACK(size, 0))
               s2 == PUT(s1, FTRP(s1, bp), PACK(size, 0))
               s3 == PUT(s2, HDRP(NEXT_BLKP(s2, bp)), EPILOGUE)
               c == coalesce(s3, bp)
           IN [s |-> c.s, bp |-> c.bp]

\* ----------------------------------------------------------------- mm_init

\* ok1, ok2: the environment's answers to the two sbrk calls.
mm_init(s, ok1, ok2) ==
    LET r == sbrk(s, 4 * WSIZE, ok1)
        hp == r.ret
    IN IF hp = SBRK_FAILED THEN
           [s |-> r.s, heap_ptr |-> hp, ret |-> 0 - 1]
       ELSE
           LET s1 == PUT(r.s, hp, 0)
               s2 == PUT(s1, hp + WSIZE, PROLOGUE)
               s3 == PUT(s2, hp + 2 * WSIZE, PROLOGUE)
               s4 == PUT(s3, hp + 3 * WSIZE, EPILOGUE)
               e == extend_heap(s4, CHUNKSIZE \div WSIZE, ok2)
           IN [s |-> e.s, heap_ptr |-> hp + 2 * WSIZE,
               ret |-> IF e.bp = NULL THEN 0 - 1 ELSE 0]

\* ------------------------------------------------------------------- place

\* (mutant) a remainder of DSIZE bytes, header and footer alone, is split off
place_split_small(s, bp, requested_size) ==
    LET free_size == GET_SIZE(s, HDRP(bp))
    IN IF (free_size - requested_size) % SizeMod >= DSIZE THEN
           LET s1 == PUT(s, HDRP(bp), PACK(requested_size, 1))
               s2 == PUT(s1, FTRP(s1, bp), PACK(requested_size, 1))
               nbp == NEXT_BLKP(s2, bp)
               rest == (free_size - requested_size) % SizeMod
               s3 == PUT(s2, HDRP(nbp), PACK(rest, 0))
               s4 == PUT(s3, FTRP(s3, nbp), PACK(rest, 0))
           IN s4
       ELSE
           LET s1 == PUT(s, HDRP(bp), PACK(free_size, 1))
               s2 == PUT(s1, FTRP(s1, bp), PACK(free_size, 1))
           IN s2

\* (mutant) a split leaves the allocated part's footer marked free
place_footer_free(s, bp, requested_size) ==
    LET free_size == GET_SIZE(s, HDRP(bp))
    IN IF (free_size - requested_size) % SizeMod >= 2 * DSIZE THEN
           LET s1 == PUT(s, HDRP(bp), PACK(requested_size, 1))
               s2 == PUT(s1, FTRP(s1, bp), PACK(requested_size, 0))
               nbp == NEXT_BLKP(s2, bp)
               rest == (free_size - requested_size) % SizeMod
               s3 == PUT(s2, HDRP(nbp), PACK(rest, 0))
               s4 == PUT(s3, FTRP(s3, nbp), PACK(rest, 0))
           IN s4
       ELSE
           LET s1 == PUT(s, HDRP(bp), PACK(free_size, 1))
               s2 == PUT(s1, FTRP(s1, bp), PACK(free_size, 1))
           IN s2

place(s, bp, requested_size) ==
    LET free_size == GET_SIZE(s, HDRP(bp))
    IN IF (free_size - requested_size) % SizeMod >= 2 * DSIZE THEN
           LET s1 == PUT(s, HDRP(bp), PACK(requested_size, 1))
               s2 == PUT(s1, FTRP(s1, bp), PACK(requested_size, 1))
               nbp == NEXT_BLKP(s2, bp)
               rest == (free_size - requested_size) % SizeMod
               s3 == PUT(s2, HDRP(nbp), PACK(rest, 0))
               s4 == PUT(s3, FTRP(s3, nbp), PACK(rest, 0))
           IN s4
       ELSE
           LET s1 == PUT(s, HDRP(bp), PACK(free_size, 1))
               s2 == PUT(s1, FTRP(s1, bp), PACK(free_size, 1))
           IN s2

\* ---------------------------------------------------------------- find_fit

\* (mutant) the scan does not test the allocated bit
RECURSIVE find_fit_any(_, _, _)
find_fit_any(s, bp, size) ==
    IF GET_SIZE(s, HDRP(bp)) > 0 THEN
        IF size <= GET_SIZE(s, HDRP(bp))
        THEN bp
        ELSE find_fit_any(s, NEXT_BLKP(s, bp), size)
    ELSE NULL

RECURSIVE find_fit_from(_, _, _)
find_fit_from(s, bp, size) ==
    IF GET_SIZE(s, HDRP(bp)) > 0 THEN
        IF GET_ALLOC(s, HDRP(bp)) = 0 /\ size <= GET_SIZE(s, HDRP(bp))
        THEN bp
        ELSE find_fit_from(s, NEXT_BLKP(s, bp), size)
    ELSE NULL

\* (mutant) the scan passes over a free block of exactly the size asked for
RECURSIVE find_fit_strict(_, _, _)
find_fit_strict(s, bp, size) ==
    IF GET_SIZE(s, HDRP(bp)) > 0 THEN
        IF GET_ALLOC(s, HDRP(bp)) = 0 /\ size < GET_SIZE(s, HDRP(bp))
        THEN bp
        ELSE find_fit_strict(s, NEXT_BLKP(s, bp), size)
    ELSE NULL

\* (mutant) the scan gives up at the first allocated block after the
\* prologue
RECURSIVE find_fit_until_alloc(_, _, _, _)
find_fit_until_alloc(s, hp, bp, size) ==
    IF GET_SIZE(s, HDRP(bp)) > 0
       /\ (bp = hp \/ GET_ALLOC(s, HDRP(bp)) = 0) THEN
        IF GET_ALLOC(s, HDRP(bp)) = 0 /\ size <= GET_SIZE(s, HDRP(bp))
        THEN bp
        ELSE find_fit_until_alloc(s, hp, NEXT_BLKP(s, bp), size)
    ELSE NULL

find_fit_short(s, hp, size) == find_fit_until_alloc(s, hp, hp, size)

\* The values bp takes in find_fit's loop, the one it stops at included.
RECURSIVE find_fit_visits(_, _, _)
find_fit_visits(s, bp, size) ==
    IF GET_SIZE(s, HDRP(bp)) > 0 THEN
        IF GET_ALLOC(s, HDRP(bp)) = 0 /\ size <= GET_SIZE(s, HDRP(bp))
        THEN <<bp>>
        ELSE <<bp>> \o find_fit_visits(s, NEXT_BLKP(s, bp), size)
    ELSE <<bp>>

find_fit_start_any(s, hp, size) == find_fit_any(s, hp, size)

find_fit(s, hp, size) == find_fit_from(s, hp, size)

\* --------------------------------------------------------------- mm_malloc

\* The adjusted block size (new_size), in size_t arithmetic.
AdjustedSize(size) ==
    IF size <= DSIZE THEN 2 * DSIZE
    ELSE LET sum == (DSIZE + size) % SizeMod
             units == ((sum + DSIZE - 1) % SizeMod) \div DSIZE
         IN (units * DSIZE) % SizeMod

ExtendWords(new_size) ==
    IF new_size > CHUNKSIZE THEN new_size \div WSIZE + 1
    ELSE CHUNKSIZE \div WSIZE

\* What mm_malloc does once the size is known not to be 0.
mm_malloc_sized(s, hp, size, ok) ==
    LET new_size == AdjustedSize(size)
        bp == find_fit(s, hp, new_size)
    IN IF bp # NULL THEN
           [s |-> place(s, bp, new_size), ret |-> bp]
       ELSE
           LET e == extend_heap(s, ExtendWords(new_size), ok)
           IN IF e.bp = NULL THEN
                  [s |-> e.s, ret |-> NULL]
              ELSE
                  [s |-> place(e.s, e.bp, new_size), ret |-> e.bp]

\* (mutant) no test of size = 0
mm_malloc_unchecked(s, hp, size, ok) == mm_malloc_sized(s, hp, size, ok)

\* ok: the environment's answer to the sbrk call, if one is made.
mm_malloc(s, hp, size, ok) ==
    IF size = 0 THEN [s |-> s, ret |-> NULL]
    ELSE mm_malloc_sized(s, hp, size, ok)

\* ------------------------------------------------------- the heap's layout

\* The blocks reached from bp by following the sizes in the headers, up to
\* the first header of size 0 (the epilogue) or the first word that holds no
\* tag: each with its payload address, size and allocated bit.
RECURSIVE ChainFrom(_, _)
ChainFrom(s, bp) ==
    IF HDRP(bp) \notin DOMAIN s.mem \/ GET_SIZE(s, HDRP(bp)) = 0 THEN <<>>
    ELSE <<[bp |-> bp, size |-> GET_SIZE(s, HDRP(bp)),
            alloc |-> GET_ALLOC(s, HDRP(bp))]>>
         \o ChainFrom(s, NEXT_BLKP(s, bp))

\* The payload address at which the chain from bp ends.
RECURSIVE ChainEnd(_, _)
ChainEnd(s, bp) ==
    IF HDRP(bp) \notin DOMAIN s.mem \/ GET_SIZE(s, HDRP(bp)) = 0 THEN bp
    ELSE ChainEnd(s, NEXT_BLKP(s, bp))

\* The addresses of the words of the layout: [Padding | Prologue Hdr |
\* Prologue Ftr | Block(s)... | Epilogue Hdr], a header and a footer a block.
TagAddrs(s, hp) ==
    LET chain == ChainFrom(s, hp)
    IN {hp - DSIZE, HDRP(ChainEnd(s, hp))}
       \cup {HDRP(chain[i].bp) : i \in 1..Len(chain)}
       \cup {chain[i].bp + chain[i].size - DSIZE : i \in 1..Len(chain)}

\* The memory without the payloads' content.
Layout(s, hp) ==
    [a \in DOMAIN s.mem \cap TagAddrs(s, hp) |-> s.mem[a]]

\* ------------------------------------------------------- the calling program

\* What the state keeps of a completed call: the operation, its argument and
\* result, the addresses it wrote and the sbrk calls it made. pair links the
\* calls of the sequence a = mm_malloc(n); mm_free(a); mm_malloc(n): for
\* mm_free(a) right after the mm_malloc(n) that returned a it is n, for
\* mm_malloc(n) right after such an mm_free(a) it is a, and else it is 0.
Call(op, arg, ret, s, pair) ==
    [op |-> op, arg |-> arg, ret |-> ret, wr |-> s.wr, sb |-> s.sb,
     pk |-> s.pk, pair |-> pair]
NoCall == [op |-> "none", arg |-> 0, ret |-> 0, wr |-> {}, sb |-> <<>>,
           pk |-> {}, pair |-> 0]
FreePair(bp) == IF last.op = "malloc" /\ last.ret = bp THEN last.arg ELSE 0
MallocPair(n) ==
    IF last.op = "free" /\ last.pair = n /\ n # 0 THEN last.arg ELSE 0

\* The heap as a call finds it.
Heap == St(mem, brk)

Idle == [pc |-> "idle", size |-> 0, bp |-> NULL, held |-> {}, calls |-> 0]
NoConc == [ctx |-> [c \in Contexts |-> Idle], mixed |-> FALSE]

Init ==
    /\ mem = [a \in {} |-> 0]
    /\ brk = HeapBase
    /\ heap_ptr = NULL
    /\ status = "fresh"
    /\ live = {}
    /\ last = NoCall
    /\ conc = NoConc

\* main calls mm_init once, before any other call.
MmInit ==
    /\ status = "fresh"
    /\ \E ok1, ok2 \in BOOLEAN :
         LET r == mm_init(St(mem, brk), ok1, ok2)
         IN /\ mem' = r.s.mem
            /\ brk' = r.s.brk
            /\ heap_ptr' = r.heap_ptr
            /\ status' = IF r.ret = 0 THEN "ready" ELSE "init_failed"
            /\ last' = Call("init", 0, r.ret, r.s, 0)
    /\ UNCHANGED <<live, conc>>

MmMalloc ==
    /\ status = "ready"
    /\ \E n \in Requests, ok \in BOOLEAN :
         /\ n = 0 \/ Cardinality(live) < MaxLive
         /\ LET r == mm_malloc(St(mem, brk), heap_ptr, n, ok)
            IN /\ mem' = Layout(r.s, heap_ptr)
               /\ brk' = r.s.brk
               /\ live' = IF r.ret # NULL THEN live \cup {r.ret} ELSE live
               /\ last' = Call("malloc", n, r.ret, r.s, MallocPair(n))
    /\ UNCHANGED <<heap_ptr, status, conc>>

\* The release precondition: bp was returned by mm_malloc and not released.
MmFree ==
    /\ status = "ready"
    /\ \E bp \in live :
         LET s == mm_free(St(mem, brk), bp)
         IN /\ mem' = Layout(s, heap_ptr)
            /\ brk' = s.brk
            /\ live' = live \ {bp}
            /\ last' = Call("free", bp, 0, s, FreePair(bp))
    /\ UNCHANGED <<heap_ptr, status, conc>>

\* A request near the top of the size type; the program ends after it, and
\* the memory is kept as the call left it.
MmMallocWide ==
    /\ status = "ready"
    /\ \E n \in WideRequests, ok \in BOOLEAN :
         LET r == mm_malloc(St(mem, brk), heap_ptr, n, ok)
         IN /\ mem' = r.s.mem
            /\ brk' = r.s.brk
            /\ live' = IF r.ret # NULL THEN live \cup {r.ret} ELSE live
            /\ last' = Call("malloc", n, r.ret, r.s, MallocPair(n))
    /\ status' = "stopped"
    /\ UNCHANGED <<heap_ptr, conc>>

\* A request larger than a header word can encode, in an environment that
\* has the memory; the program ends after it.
MmMallocLarge ==
    /\ status = "ready"
    /\ \E n \in LargeRequests, ok \in BOOLEAN :
         LET r == mm_malloc([St(mem, brk) EXCEPT !.lim = LargeLimit],
                            heap_ptr, n, ok)
         IN /\ mem' = r.s.mem
            /\ brk' = r.s.brk
            /\ live' = IF r.ret # NULL THEN live \cup {r.ret} ELSE live
            /\ last' = Call("malloc", n, r.ret, r.s, MallocPair(n))
    /\ status' = "stopped"
    /\ UNCHANGED <<heap_ptr, conc>>

Next == MmInit \/ MmMalloc \/ MmFree

Spec == Init /\ [][Next]_vars

NextWide == MmInit \/ MmMalloc \/ MmFree \/ MmMallocWide

SpecWide == Init /\ [][NextWide]_vars

NextLarge == MmInit \/ MmMalloc \/ MmFree \/ MmMallocLarge

SpecLarge == Init /\ [][NextLarge]_vars

\* ------------------------------------------------- two contexts, no lock

\* A step of context c: its locals become those of loc, and the step is
\* mixed when the other context is inside a call.
Step(c, loc) ==
    [ctx |-> [conc.ctx EXCEPT ![c] = loc],
     mixed |-> conc.mixed
               \/ \E d \in Contexts \ {c} : conc.ctx[d].pc # "idle"]
Held(cc) == UNION {cc.ctx[c].held : c \in Contexts}

\* The memory a step leaves: when no context is inside a call no local
\* refers to a word off the chain, and the payloads' content is dropped.
Settle(m, b, cc) ==
    IF \A c \in Contexts : cc.ctx[c].pc = "idle"
    THEN Layout(St(m, b), heap_ptr) ELSE m

\* The heap is broken: the chain from the prologue does not end at the
\* epilogue in the heap's last word, a block's header and footer differ, a
\* pointer held is not an allocated block of the chain, or both contexts
\* hold the same pointer. The contexts are followed up to the first such
\* state.
ConcBroken ==
    \E chain \in {ChainFrom(Heap, heap_ptr)} :
        \/ ChainEnd(Heap, heap_ptr) # brk
        \/ brk - WSIZE \notin DOMAIN mem \/ mem[brk - WSIZE] # EPILOGUE
        \/ \E i \in 1..Len(chain) :
             \/ chain[i].bp + chain[i].size - DSIZE \notin DOMAIN mem
             \/ mem[chain[i].bp + chain[i].size - DSIZE]
                  # mem[HDRP(chain[i].bp)]
        \/ \E p \in Held(conc) : \A i \in 1..Len(chain) :
             chain[i].bp # p \/ chain[i].alloc = 0
        \/ \E c, d \in Contexts :
             c # d /\ conc.ctx[c].held \cap conc.ctx[d].held # {}

\* mm_malloc, up to the test of find_fit's result.
CFindFit(c) ==
    /\ status = "ready" /\ conc.ctx[c].pc = "idle" /\ ~ConcBroken
    /\ conc.ctx[c].calls < MaxCalls
    /\ \E n \in ConcRequests :
         LET new_size == AdjustedSize(n)
             bp == find_fit(Heap, heap_ptr, new_size)
         IN conc' = Step(c, [conc.ctx[c] EXCEPT
                !.pc = IF bp # NULL THEN "place" ELSE "extend",
                !.size = new_size, !.bp = bp, !.calls = @ + 1])
    /\ UNCHANGED <<mem, brk, heap_ptr, status, live, last>>

\* mm_malloc: extend_heap and the test of its result.
CExtend(c) ==
    /\ status = "ready" /\ conc.ctx[c].pc = "extend" /\ ~ConcBroken
    /\ \E ok \in BOOLEAN :
         LET e == extend_heap(Heap, ExtendWords(conc.ctx[c].size), ok)
         IN /\ mem' = e.s.mem
            /\ brk' = e.s.brk
            /\ conc' = Step(c, IF e.bp = NULL THEN
                                   [conc.ctx[c] EXCEPT !.pc = "idle",
                                       !.size = 0, !.bp = NULL]
                               ELSE [conc.ctx[c] EXCEPT !.pc = "place",
                                                        !.bp = e.bp])
    /\ UNCHANGED <<heap_ptr, status, live, last>>

\* mm_malloc: place, and the return of bp.
CPlace(c) ==
    /\ status = "ready" /\ conc.ctx[c].pc = "place" /\ ~ConcBroken
    /\ conc' = Step(c, [conc.ctx[c] EXCEPT
           !.pc = "idle", !.size = 0, !.bp = NULL,
           !.held = @ \cup {conc.ctx[c].bp}])
    /\ mem' = Settle(place(Heap, conc.ctx[c].bp, conc.ctx[c].size).mem,
                     brk, conc')
    /\ live' = Held(conc')
    /\ UNCHANGED <<brk, heap_ptr, status, last>>

\* mm_free of a pointer the context holds, up to the call of coalesce.
CFreeMark(c) ==
    /\ status = "ready" /\ conc.ctx[c].pc = "idle" /\ ~ConcBroken
    /\ conc.ctx[c].calls < MaxCalls
    /\ \E bp \in conc.ctx[c].held :
         LET size == GET_SIZE(Heap, HDRP(bp))
             s1 == PUT(Heap, HDRP(bp), PACK(size, 0))
             s2 == PUT(s1, FTRP(s1, bp), PACK(size, 0))
         IN /\ mem' = s2.mem
            /\ conc' = Step(c, [conc.ctx[c] EXCEPT
                   !.pc = "coalesce", !.bp = bp, !.calls = @ + 1,
                   !.held = conc.ctx[c].held \ {bp}])
    /\ live' = Held(conc')
    /\ UNCHANGED <<brk, heap_ptr, status, last>>

\* mm_free: coalesce.
CCoalesce(c) ==
    /\ status = "ready" /\ conc.ctx[c].pc = "coalesce" /\ ~ConcBroken
    /\ conc' = Step(c, [conc.ctx[c] EXCEPT !.pc = "idle", !.bp = NULL])
    /\ mem' = Settle(coalesce(Heap, conc.ctx[c].bp).s.mem, brk, conc')
    /\ UNCHANGED <<brk, heap_ptr, status, live, last>>

NextConc ==
    \/ MmInit
    \/ \E c \in Contexts :
         CFindFit(c) \/ CExtend(c) \/ CPlace(c) \/ CFreeMark(c)
         \/ CCoalesce(c)

SpecConc == Init /\ [][NextConc]_vars

\* ------------------------------------------------------------------ claims

\* mm_init has succeeded.
Initialized == status \in {"ready", "stopped"}
\* The blocks of the heap, the prologue first.
Blocks == ChainFrom(Heap, heap_ptr)
\* The word at address a, or -1 where the layout has no word.
Word(a) == IF a \in DOMAIN mem THEN mem[a] ELSE 0 - 1
WordSize(a) == Word(a) - (Word(a) % 8)
\* The block chain ends at the epilogue header, the last word of the heap.
ChainReachesBrk == ChainEnd(Heap, heap_ptr) = brk /\ Word(brk - WSIZE) = 1
\* The call just completed extended the heap.
Extended == last.sb # <<>> /\ last.sb[Len(last.sb)].ret # SBRK_FAILED

\* C1: after a successful mm_init and after every mm_malloc and mm_free, the
\* block chain covers the heap and no two adjacent blocks are both free.
C1_NoAdjacentFree ==
    Initialized =>
        /\ ChainReachesBrk
        /\ \A i \in 1..(Len(Blocks) - 1) :
             Blocks[i].alloc = 1 \/ Blocks[i + 1].alloc = 1

\* An mm_malloc has extended the heap with the last block free: the block it
\* returns starts below the old break, and a free block remains.
C1_Witness ==
    /\ last.op = "malloc" /\ Extended
    /\ last.ret # NULL /\ last.ret < last.sb[1].ret
    /\ \E i \in 1..Len(Blocks) : Blocks[i].alloc = 0

\* C2: every mm_malloc(n), n > 0, that returns a pointer returns an 8-aligned
\* pointer to a block marked allocated whose payload holds n bytes.
C2_Containment ==
    (last.op = "malloc" /\ last.ret # NULL) =>
        /\ Word(HDRP(last.ret)) % 2 = 1
        /\ WordSize(HDRP(last.ret)) - DSIZE >= last.arg
        /\ last.ret % DSIZE = 0

\* The payload words of the block at q: [q, q + size - DSIZE).
Payload(q) == {a \in q..(q + WordSize(HDRP(q)) - DSIZE - 1) : a % WSIZE = 0}

C3_LiveDisjoint ==
    /\ \A q \in live : \E i \in 2..Len(Blocks) :
         Blocks[i].bp = q /\ Blocks[i].alloc = 1
    /\ \A p, q \in live :
         p < q => p - WSIZE + WordSize(HDRP(p)) <= q - WSIZE

C3_Frame ==
    /\ (last'.op = "malloc" /\ last'.ret # NULL) => last'.ret \notin live
    /\ \A q \in live \cap live' :
         /\ mem'[HDRP(q)] = mem[HDRP(q)]
         /\ mem'[q + WordSize(HDRP(q)) - DSIZE]
              = mem[q + WordSize(HDRP(q)) - DSIZE]
         /\ last'.wr \cap Payload(q) = {}

\* C3: live blocks are allocated blocks of the chain with disjoint byte
\* ranges, and no call returns a live block, writes a word inside the payload
\* of a live block, or changes the header or footer of a live block other
\* than the one it releases.
C3_DataIntegrity == []C3_LiveDisjoint /\ [][C3_Frame]_vars

\* Two blocks are live, and the call that just completed extended the heap.
C3_Witness ==
    /\ Cardinality(live) >= 2
    /\ last.op = "malloc" /\ Extended /\ last.ret \in live

\* C4: between calls the heap begins with the prologue, header and footer
\* (8, allocated), and its last word is the epilogue header (0, allocated);
\* the prologue is the first block of the chain, the chain ends at the
\* epilogue, and neither is handed to the caller.
C4_Sentinels ==
    Initialized =>
        /\ heap_ptr = HeapBase + 2 * WSIZE
        /\ Word(heap_ptr - WSIZE) = 9 /\ Word(heap_ptr) = 9
        /\ Word(brk - WSIZE) = 1
        /\ Len(Blocks) >= 1
        /\ Blocks[1] = [bp |-> heap_ptr, size |-> DSIZE, alloc |-> 1]
        /\ ChainEnd(Heap, heap_ptr) = brk
        /\ live \cap {heap_ptr, brk} = {}
        /\ last.op = "malloc" => last.ret \notin {heap_ptr, brk}

\* The heap has been extended after mm_init and holds a free block.
C4_Witness ==
    /\ status = "ready" /\ brk > HeapBase + 4 * WSIZE + CHUNKSIZE
    /\ last.op = "free"
    /\ \E i \in 1..Len(Blocks) : Blocks[i].alloc = 0

\* C5: a = mm_malloc(n), mm_free(a), b = mm_malloc(n) with no call in
\* between gives b = a.
C5_Reuse == (last.op = "malloc" /\ last.pair # 0) => last.ret = last.pair

\* The sequence has run with n = 48 while other blocks are live.
C5_Witness ==
    last.op = "malloc" /\ last.pair # 0 /\ last.arg = 48 /\ live # {last.ret}

Max(a, b) == IF a >= b THEN a ELSE b
Index(bp) == CHOOSE i \in 1..Len(Blocks) : Blocks[i].bp = bp
\* The size of block i of the chain if it is free, else 0; the epilogue,
\* which follows the last block, is allocated.
FreeSize(i) ==
    IF i <= Len(Blocks) /\ Blocks[i].alloc = 0 THEN Blocks[i].size ELSE 0
FirstOf(i) == IF Blocks[i - 1].alloc = 0 THEN i - 1 ELSE i
LastOf(i) == IF i < Len(Blocks) /\ Blocks[i + 1].alloc = 0 THEN i + 1 ELSE i

\* mm_free(bp): the block, with each adjacent neighbour that was free,
\* becomes one free block at the leftmost participant's address, its size
\* the sum of theirs in header and footer alike; every other block stays.
C6_FreeStep ==
    LET i == Index(last'.arg)
        start == Blocks[FirstOf(i)].bp
        size == Blocks[i].size + FreeSize(i - 1) + FreeSize(i + 1)
    IN /\ mem'[HDRP(start)] = size
       /\ mem'[start + size - DSIZE] = size
       /\ Blocks' = SubSeq(Blocks, 1, FirstOf(i) - 1)
                    \o <<[bp |-> start, size |-> size, alloc |-> 0]>>
                    \o SubSeq(Blocks, LastOf(i) + 1, Len(Blocks))

\* Heap extension by mm_malloc: the new block [brk, brk') joins the last
\* block if that was free; the merged block starts at the leftmost
\* participant, which mm_malloc returns, and it is what place has filled.
C6_ExtendStep ==
    LET n == Len(Blocks)
        merged == Blocks[n].alloc = 0
        start == IF merged THEN Blocks[n].bp ELSE brk
        size == (brk' - brk) + FreeSize(n)
        kept == IF merged THEN n - 1 ELSE n
        placed == SubSeq(Blocks', kept + 1, Len(Blocks'))
    IN /\ last'.ret = start
       /\ SubSeq(Blocks', 1, kept) = SubSeq(Blocks, 1, kept)
       /\ Len(placed) \in {1, 2}
       /\ placed[1].bp = start /\ placed[1].alloc = 1
       /\ Len(placed) = 1 => placed[1].size = size
       /\ Len(placed) = 2 =>
            /\ placed[2].alloc = 0
            /\ placed[1].size + placed[2].size = size

\* Heap extension by mm_init: the block before the new one is the prologue,
\* so the new block stays as it is, at the old break.
C6_InitStep ==
    Blocks' = <<[bp |-> heap_ptr', size |-> DSIZE, alloc |-> 1],
                [bp |-> last'.sb[2].ret, size |-> last'.sb[2].inc,
                 alloc |-> 0]>>

C6_Step ==
    /\ (last'.op = "free" /\ live' # live) => C6_FreeStep
    /\ (last'.op = "malloc" /\ brk' > brk) => C6_ExtendStep
    /\ (last'.op = "init" /\ status' = "ready") => C6_InitStep

\* C6: coalescing yields one free block that spans the block and its free
\* neighbours, sized by their sum, at the leftmost participant's address.
C6_Coalescing == [][C6_Step]_vars

\* An mm_free has merged the block with both neighbours (four tags written)
\* and no block is live: the whole heap is one free block.
C6_Witness ==
    /\ last.op = "free" /\ Cardinality(last.wr) = 4
    /\ live = {}
    /\ Len(Blocks) = 2 /\ Blocks[2].alloc = 0

\* C7: an mm_malloc that finds no fit grows the heap by exactly
\* max(adjusted size, CHUNKSIZE) bytes.
C7_ExtensionSizing ==
    (last.op = "malloc" /\ Extended) =>
        last.sb[1].inc = Max(AdjustedSize(last.arg), CHUNKSIZE)

\* C8: mm_init fails exactly when an sbrk call fails, and then leaves the
\* heap pointer, the break and the memory as they were.
C8_InitFailure ==
    last.op = "init" =>
        /\ (last.ret = 0 - 1) <=>
               (\E i \in 1..Len(last.sb) : last.sb[i].ret = SBRK_FAILED)
        /\ (last.ret = 0 - 1) =>
               /\ heap_ptr = NULL
               /\ brk = HeapBase
               /\ DOMAIN mem = {}

\* The sbrk call of the mm_malloc that just completed was refused.
Refused == last.sb # <<>> /\ last.sb[1].ret = SBRK_FAILED

C9_Step ==
    (last'.op = "malloc" /\ last'.sb # <<>>
        /\ last'.sb[1].ret = SBRK_FAILED) =>
        /\ last'.ret = NULL
        /\ last'.wr = {}
        /\ mem' = mem /\ brk' = brk /\ heap_ptr' = heap_ptr /\ live' = live

\* C9: an mm_malloc whose extension is refused returns NULL, writes nothing
\* and leaves memory, break and heap pointer, hence every later call, as
\* they were.
C9_OutOfMemory == [][C9_Step]_vars

\* An mm_malloc(5000) was refused while blocks are live.
C9_Witness ==
    last.op = "malloc" /\ Refused /\ last.ret = NULL /\ live # {}

C10_Step ==
    (last'.op = "malloc" /\ last'.arg = 0) =>
        /\ last'.ret = NULL
        /\ last'.wr = {} /\ last'.sb = <<>>
        /\ mem' = mem /\ brk' = brk /\ heap_ptr' = heap_ptr /\ live' = live

\* C10: mm_malloc(0) returns NULL, writes nothing, calls sbrk not at all and
\* leaves the heap as it was.
C10_ZeroRequest == [][C10_Step]_vars

\* mm_malloc(0) has returned NULL on a heap with a live and a free block.
C10_Witness ==
    /\ last.op = "malloc" /\ last.arg = 0 /\ last.ret = NULL
    /\ live # {}
    /\ \E i \in 1..Len(Blocks) : Blocks[i].alloc = 0

\* The sum of the sizes of blocks[1..k].
RECURSIVE SumTo(_, _)
SumTo(blocks, k) ==
    IF k = 0 THEN 0 ELSE blocks[k].size + SumTo(blocks, k - 1)
SumSizes(blocks) == SumTo(blocks, Len(blocks))
\* The blocks between the prologue and the epilogue.
Regular == SubSeq(Blocks, 2, Len(Blocks))
\* The bytes a call obtained by extending the heap (extend_heap's sbrk; the
\* first sbrk of mm_init holds the padding and the sentinels).
ExtendedBytes(call) ==
    LET k == IF call.op = "init" THEN 2 ELSE 1
    IN IF Len(call.sb) >= k /\ call.sb[k].ret # SBRK_FAILED
       THEN call.sb[k].inc ELSE 0

C11_WellFormed ==
    Initialized =>
        \A blocks \in {Blocks} :
            /\ Len(blocks) >= 1 /\ blocks[1].bp = heap_ptr
            /\ ChainReachesBrk
            /\ \A i \in 1..Len(blocks) : \A b \in {blocks[i]} :
                 /\ Word(HDRP(b.bp)) = b.size + b.alloc
                 /\ Word(b.bp + b.size - DSIZE) = Word(HDRP(b.bp))
                 /\ b.size % DSIZE = 0
                 /\ b.size >= (IF i = 1 THEN DSIZE ELSE 2 * DSIZE)
            /\ SumSizes(blocks) - DSIZE = brk - (HeapBase + 4 * WSIZE)

\* The heap above the sentinels grows by what extend_heap obtains, and by
\* nothing else.
C11_Growth ==
    Initialized' =>
        brk' = (IF Initialized THEN brk ELSE HeapBase + 4 * WSIZE)
               + ExtendedBytes(last')

\* C11: between calls the chain from the prologue ends exactly at the
\* epilogue header, the last word of the heap; every block's header and
\* footer encode the same (size, allocated) pair, its size is a multiple of 8
\* and at least the minimum (8 for the prologue, 16 for any other block); and
\* the block sizes add up to the bytes obtained by heap extensions.
C11_WellFormedness == []C11_WellFormed /\ [][C11_Growth]_vars

\* The heap has been extended by an mm_malloc and holds at least four blocks
\* after the prologue, free and allocated ones, after a release.
C11_Witness ==
    /\ last.op = "free" /\ brk > HeapBase + 4 * WSIZE + CHUNKSIZE
    /\ Len(Regular) >= 4
    /\ \E i, j \in 2..Len(Blocks) : Blocks[i].alloc = 0 /\ Blocks[j].alloc = 1

\* The adjusted size of a request of n > 0 bytes: the payload rounded up to
\* a multiple of 8, with header and footer, and at least 16.
RoundedSize(n) == Max(2 * DSIZE, ((n + DSIZE - 1) \div DSIZE) * DSIZE + DSIZE)
\* The free blocks of the chain that hold size bytes.
Fits(size) ==
    {i \in 2..Len(Blocks) : Blocks[i].alloc = 0 /\ Blocks[i].size >= size}
Lowest(S) == CHOOSE i \in S : \A j \in S : i <= j

C12_Step ==
    (last'.op = "malloc" /\ last'.arg # 0) =>
        \A fits \in {Fits(RoundedSize(last'.arg))} :
            /\ fits # {} =>
                 /\ last'.ret = Blocks[Lowest(fits)].bp
                 /\ last'.sb = <<>> /\ brk' = brk
            /\ fits = {} => last'.sb # <<>>
            /\ brk' # brk => fits = {}

\* C12: mm_malloc(n), n > 0, returns the lowest-addressed free block of at
\* least the adjusted size when there is one, without calling sbrk; it calls
\* sbrk, and the heap grows, only when no free block is large enough.
C12_FirstFit == [][C12_Step]_vars

\* mm_malloc has split the lowest free block although a free block further
\* up fits the request more closely.
C12_Witness ==
    /\ last.op = "malloc" /\ last.ret # NULL /\ last.sb = <<>>
    /\ \E i \in 2..(Len(Blocks) - 2) :
         /\ Blocks[i].bp = last.ret /\ Blocks[i + 1].alloc = 0
         /\ \E j \in (i + 2)..Len(Blocks) :
              /\ Blocks[j].alloc = 0
              /\ Blocks[j].size >= Blocks[i].size
              /\ Blocks[j].size < Blocks[i].size + Blocks[i + 1].size

\* The word at address a after the step, or -1 where the layout has none.
WordAfter(a) == IF a \in DOMAIN mem' THEN mem'[a] ELSE 0 - 1
\* The size of the free block that the mm_malloc of this step places the
\* request in: the block find_fit returns, or the new block of an extension
\* together with the last block when that was free.
PlacedIn ==
    IF last'.sb = <<>> THEN Blocks[Index(last'.ret)].size
    ELSE (brk' - brk) + FreeSize(Len(Blocks))

\* place with the split threshold minimum: a remainder of at least minimum
\* bytes is split off as a free block right after the allocated block of
\* exactly the requested bytes; else the whole block is allocated.
C13_Placed(minimum) ==
    (last'.op = "malloc" /\ last'.ret # NULL) =>
        \A bp \in {last'.ret}, requested \in {RoundedSize(last'.arg)},
           size \in {PlacedIn} :
            IF size - requested >= minimum THEN
                /\ WordAfter(HDRP(bp)) = requested + 1
                /\ WordAfter(bp + requested - DSIZE) = requested + 1
                /\ WordAfter(HDRP(bp + requested)) = size - requested
                /\ WordAfter(bp + size - DSIZE) = size - requested
            ELSE
                /\ WordAfter(HDRP(bp)) = size + 1
                /\ WordAfter(bp + size - DSIZE) = size + 1
                /\ size - requested <= minimum - 1

\* C13 as stated: the threshold is the size of a block of header and footer
\* with no payload, the size the prologue carries (DSIZE).
C13_Original == [][C13_Placed(DSIZE)]_vars

\* C13, amended: place splits when the remainder is at least 2 * DSIZE = 16
\* bytes, into an allocated block of exactly the requested bytes and a free
\* block of exactly the remainder; else the whole block is allocated, so an
\* allocated block exceeds the adjusted size by less than 16 bytes and a
\* free remainder is never smaller than 16 bytes.
C13_Placement == [][C13_Placed(2 * DSIZE)]_vars

\* mm_malloc(48) has taken a free block of 64 bytes whole: the remainder of
\* 8 bytes was not split off.
C13_Witness ==
    /\ last.op = "malloc" /\ last.ret # NULL /\ last.arg = 48
    /\ Word(HDRP(last.ret)) = RoundedSize(48) + DSIZE + 1

\* C14: for every n > 0 of the size type, mm_malloc computes the adjusted
\* size max(16, roundup(n, 8) + 8) without wraparound, and a request for
\* which that size does not fit the size type is answered with NULL.
C14_AdjustedSize ==
    (last.op = "malloc" /\ last.arg > 0) =>
        IF RoundedSize(last.arg) < SizeMod
        THEN /\ AdjustedSize(last.arg) = RoundedSize(last.arg)
             /\ AdjustedSize(last.arg) % DSIZE = 0
             /\ AdjustedSize(last.arg) >= 2 * DSIZE
             /\ AdjustedSize(last.arg) >= last.arg + DSIZE
        ELSE last.ret = NULL

\* C15: every value PACK(size, allocated) that a call stores in a header or
\* footer decodes to the same pair: the word holds the size untruncated, the
\* allocated bit is the one packed, and the size has no bit among the flag
\* bits.
C15_CodecRoundTrip ==
    \A val \in last.pk : \A word \in {val % WordMod} :
        /\ word - (word % 8) = val - (val % 8)
        /\ word % 2 = val % 2
        /\ val % 8 \in {0, 1}

\* find_fit's scan for size bytes on the heap as it is: bp advances strictly
\* through the blocks of the chain, at most one visit a block and one of the
\* epilogue; it stops at the first free block that fits, which find_fit
\* returns, or at the epilogue at the break, and only then find_fit returns
\* NULL.
C16_Scan(size) ==
    \A visits \in {find_fit_visits(Heap, heap_ptr, size)},
       found \in {find_fit(Heap, heap_ptr, size)}, fits \in {Fits(size)} :
        /\ Len(visits) <= Len(Blocks) + 1
        /\ \A k \in 1..Len(visits) :
             IF k <= Len(Blocks) THEN visits[k] = Blocks[k].bp
             ELSE visits[k] = brk
        /\ \A k \in 1..(Len(visits) - 1) : visits[k] < visits[k + 1]
        /\ \A k \in 1..(Len(visits) - 1) : k \notin fits
        /\ found # NULL =>
             /\ fits # {} /\ found = Blocks[Lowest(fits)].bp
             /\ visits[Len(visits)] = found
        /\ found = NULL =>
             /\ fits = {}
             /\ visits[Len(visits)] = brk /\ Len(visits) = Len(Blocks) + 1
             /\ Word(HDRP(brk)) = 1

\* C16: in every reachable heap state and for every request, find_fit's scan
\* ends after at most one visit of each block, at the first fitting free
\* block or at the epilogue at the heap's end.
C16_SearchTerminates ==
    Initialized => \A n \in Requests \ {0} : C16_Scan(RoundedSize(n))

\* An mm_malloc found no fit and extended the heap although a free block,
\* too small for it, lies below allocated blocks: the scan passed free and
\* allocated blocks up to the epilogue.
C16_Witness ==
    /\ last.op = "malloc" /\ Extended /\ last.ret # NULL
    /\ \E i \in 2..Len(Blocks) :
         /\ Blocks[i].alloc = 0 /\ Blocks[i].bp < last.ret
         /\ Blocks[i].size < RoundedSize(last.arg)
         /\ \E j \in (i + 1)..Len(Blocks) :
              Blocks[j].alloc = 1 /\ Blocks[j].bp < last.ret

\* C17: when every pointer returned has been released, one free block lies
\* between the prologue and the epilogue, and its size is the bytes obtained
\* by heap extensions: the heap less the padding and the sentinels.
C17_FullRelease ==
    (status = "ready" /\ live = {}) =>
        /\ Blocks = <<[bp |-> heap_ptr, size |-> DSIZE, alloc |-> 1],
                      [bp |-> heap_ptr + DSIZE,
                       size |-> brk - (HeapBase + 4 * WSIZE), alloc |-> 0]>>
        /\ Word(HDRP(heap_ptr + DSIZE)) = brk - (HeapBase + 4 * WSIZE)
        /\ Word(brk - DSIZE) = brk - (HeapBase + 4 * WSIZE)
        /\ Word(brk - WSIZE) = 1

\* The last of several blocks has been released, in a heap that mm_malloc
\* has extended.
C17_Witness ==
    /\ status = "ready" /\ live = {} /\ last.op = "free"
    /\ brk > HeapBase + 4 * WSIZE + CHUNKSIZE

\* mm_malloc(n) on the heap as it is, the sbrk call granted if the
\* environment can, and mm_free of the pointer returned right after.
RoundTrip(n) ==
    LET r == mm_malloc(Heap, heap_ptr, n, TRUE)
        s == St(Layout(r.s, heap_ptr), r.s.brk)
    IN IF r.ret = NULL THEN [ret |-> NULL, brk |-> brk, mem |-> mem]
       ELSE [ret |-> r.ret, brk |-> r.s.brk,
             mem |-> Layout(mm_free(s, r.ret), heap_ptr)]

\* The layout with the heap's end grown by inc bytes of free space: the last
\* block takes them if it is free, else they are a new free block.
Grown(inc) ==
    LET n == Len(Blocks)
        start == IF Blocks[n].alloc = 0 THEN Blocks[n].bp ELSE brk
        size == inc + FreeSize(n)
        kept == {a \in DOMAIN mem : a < HDRP(start)}
    IN [a \in kept \cup {HDRP(start), brk + inc - DSIZE, brk + inc - WSIZE} |->
           IF a \in kept THEN mem[a]
           ELSE IF a = brk + inc - WSIZE THEN 1 ELSE size]

\* C18: mm_malloc(n) that succeeds, followed at once by mm_free of its
\* result, leaves every header and footer as before when the heap was not
\* extended, and else differs only by the free block at the heap's end,
\* grown by the extension.
C18_RoundTrip ==
    status = "ready" =>
        \A n \in Requests \ {0} : \A t \in {RoundTrip(n)} :
            t.ret # NULL =>
                IF t.brk = brk THEN t.mem = mem
                ELSE t.mem = Grown(t.brk - brk)

\* The sequence has run: an mm_free has just released what the mm_malloc
\* before it returned, which had split a free block between live blocks.
C18_Witness ==
    /\ last.op = "free" /\ last.pair # 0 /\ Cardinality(live) >= 2
    /\ \E p \in live : p > last.arg
    /\ \E p \in live : p < last.arg

\* The header and footer addresses of block i of the chain.
Tags(i) == {HDRP(Blocks[i].bp), Blocks[i].bp + Blocks[i].size - DSIZE}

C19_Step ==
    (last'.op = "free" /\ live' # live) =>
        \A i \in {Index(last'.arg)} :
        \A own \in {Tags(i)
                    \cup (IF Blocks[i - 1].alloc = 0 THEN Tags(i - 1) ELSE {})
                    \cup (IF i < Len(Blocks) /\ Blocks[i + 1].alloc = 0
                          THEN Tags(i + 1) ELSE {})} :
            /\ brk' = brk /\ heap_ptr' = heap_ptr /\ last'.sb = <<>>
            /\ WordAfter(brk - WSIZE) = 1
            /\ last'.wr \subseteq own
            /\ \A j \in 1..Len(Blocks) :
                 (j \notin {i - 1, i, i + 1} \/ Tags(j) \cap own = {}) =>
                     \A a \in Tags(j) : WordAfter(a) = mem[a]

\* C19: mm_free(p) leaves the break, heap_ptr and the epilogue as they are,
\* calls sbrk not at all, writes only headers and footers of p's block and
\* of its adjacent neighbours that were free, and leaves the header and
\* footer of every other block unchanged.
C19_ReleaseFrame == [][C19_Step]_vars

\* mm_free has merged the block with exactly one free neighbour (three tags
\* written) while a live block lies above it.
C19_Witness ==
    /\ last.op = "free" /\ Cardinality(last.wr) = 3
    /\ \E p \in live : p > last.arg

\* No context is inside a call.
AllIdle == \A c \in Contexts : conc.ctx[c].pc = "idle"

\* C20: two contexts call mm_malloc and mm_free with no lock. As long as no
\* step of one context fell inside a call of the other the heap is not
\* broken, and between calls no two adjacent blocks are free; with steps
\* interleaved a broken heap is reached (C20_Witness).
C20_OnlyInterleaved ==
    (status = "ready" /\ ~conc.mixed) =>
        /\ ~ConcBroken
        /\ AllIdle => \A i \in 1..(Len(Blocks) - 1) :
                         Blocks[i].alloc = 1 \/ Blocks[i + 1].alloc = 1

\* Both contexts have run find_fit before either has run place: both
\* mm_malloc calls have returned the same address.
C20_Witness ==
    /\ status = "ready" /\ AllIdle /\ conc.mixed /\ ConcBroken
    /\ conc.ctx[1].held \cap conc.ctx[2].held # {}

====
